---- MODULE Spec2Model ----
(***************************************************************************)
(* Model of split_pages/app.py: the Lambda handler that splits multi-page  *)
(* TIFFs, fixes colour mode, pixel dimensions and encoded size, and writes *)
(* modified pages back to the S3 bucket whose object-created events        *)
(* trigger the handler again.                                              *)
(*                                                                         *)
(* An image is abstracted to [width, height, mode, nbytes]: nbytes is the  *)
(* size of im.save(buffer, format="tiff") for that image.  The encoder is  *)
(* outside the program, so the size of a converted or resized image is a   *)
(* nondeterministic choice from ByteSizes.  The double-precision product   *)
(* of check_oversized_dimen is modelled bit-exactly (FloatScaled); the     *)
(* square root of check_oversized_mem is modelled by exact arithmetic.     *)
(***************************************************************************)
EXTENDS Integers, Sequences, FiniteSets, TLC

VARIABLES
    store,              \* the bucket: key -> [frames, gen]
    events,             \* object-created events not yet delivered (keys, oldest first)
    uploads,            \* number of external uploads so far
    pc,                 \* per invocation: "idle" | "loop" | "done" | "crashed"
    key,                \* per invocation: key of the triggering event
    im,                 \* per invocation: the object read by get_object
    page_num,           \* per invocation: loop index (0-based)
    bool_modified,      \* per invocation
    modified_pages,     \* per invocation
    unmodified_pages,   \* per invocation
    result,             \* per invocation: the returned dict
    puts                \* per invocation: log of put_tif_buffer calls

vars == <<store, events, uploads, pc, key, im, page_num, bool_modified,
          modified_pages, unmodified_pages, result, puts>>

-----------------------------------------------------------------------------
\* Bounds of the model

NumProcs == 2      \* concurrent invocations (SpecConcurrent)
MaxUploads == 2    \* uploads (SpecConcurrent)
MaxPages == 2      \* frames of an uploaded image
MaxGen == 2        \* an object written MaxGen times over is not processed again

Procs == 1..NumProcs

-----------------------------------------------------------------------------
\* Program constants

MaxDimension == 10000
max_bytes == 10485760
\* the budget the tests hold a written page to: 99% of max_bytes
ByteBudget == 10380902
\* the 0.95 of check_oversized_mem, as the fraction 19/20
SafetyNum == 19
SafetyDen == 20

BucketName == "covenants-deed-images"

-----------------------------------------------------------------------------
\* Inputs

SourceKeys == {"x.tif", "x.tiff", "x.jpg", ".DS_Store"}

\* encoded sizes the encoder may give a converted or resized image
ByteSizes == {1000000, 10600000}

SourcePages ==
    { [width |-> 8000,  height |-> 6000,  mode |-> "RGB", nbytes |-> 1000000],
      [width |-> 8000,  height |-> 6000,  mode |-> "1",   nbytes |-> 1000000],
      [width |-> 20000, height |-> 15000, mode |-> "RGB", nbytes |-> 1000000],
      [width |-> 9000,  height |-> 12000, mode |-> "1",   nbytes |-> 1000000],
      [width |-> 6000,  height |-> 8000,  mode |-> "RGB", nbytes |-> 15000000],
      [width |-> 8000,  height |-> 6000,  mode |-> "RGB", nbytes |-> 10400000] }

RECURSIVE SeqsUpTo(_, _)
SeqsUpTo(S, n) ==
    IF n = 0 THEN {<<>>}
    ELSE LET shorter == SeqsUpTo(S, n - 1)
         IN  shorter \cup {Append(s, x) : s \in shorter, x \in S}

Documents == SeqsUpTo(SourcePages, MaxPages) \ {<<>>}

\* images whose pages need no fix, for the runs with several uploads
PlainPages ==
    { [width |-> 8000, height |-> 6000, mode |-> "RGB", nbytes |-> 1000000] }
PlainDocuments == SeqsUpTo(PlainPages, MaxPages) \ {<<>>}

-----------------------------------------------------------------------------
\* String helpers

Char(s, i) == SubSeq(s, i, i)

\* sub in s
Contains(s, sub) ==
    \E i \in 1..(Len(s) - Len(sub) + 1) : SubSeq(s, i, i + Len(sub) - 1) = sub

\* re.match(r'\.tif', s[i-1:], re.IGNORECASE)
TifAt(s, i) ==
    /\ i + 3 <= Len(s)
    /\ Char(s, i) = "."
    /\ Char(s, i + 1) \in {"t", "T"}
    /\ Char(s, i + 2) \in {"i", "I"}
    /\ Char(s, i + 3) \in {"f", "F"}

\* re.split(r'\.tif(?:f)?', k, flags=re.IGNORECASE)[0]
key_minus_extension(k) ==
    LET hits == {i \in 1..Len(k) : TifAt(k, i)}
    IN  IF hits = {} THEN k
        ELSE LET first == CHOOSE i \in hits : \A j \in hits : i <= j
             IN  SubSeq(k, 1, first - 1)

\* f"{key_minus_extension}_SPLITPAGE_{page_num+1}.tif"
SplitKey(k, n) ==
    key_minus_extension(k) \o "_SPLITPAGE_" \o ToString(n + 1) \o ".tif"

-----------------------------------------------------------------------------
\* Arithmetic helpers: exact arithmetic on machine integers

RECURSIVE Gcd(_, _)
Gcd(a, b) == IF b = 0 THEN a ELSE Gcd(b, a % b)

\* <<q, r>> with a * b = q * c + r and 0 <= r < c, without forming a * b
RECURSIVE MulDivMod(_, _, _)
MulDivMod(a, b, c) ==
    IF b = 0 THEN <<0, 0>>
    ELSE LET h   == MulDivMod(a, b \div 2, c)
             odd == b % 2
             r   == 2 * h[2] + odd * (a % c)
         IN  <<2 * h[1] + odd * (a \div c) + (r \div c), r % c>>

\* the largest n in lo..hi with n * n <= v, given that lo * lo <= v
RECURSIVE SqrtBetween(_, _, _)
SqrtBetween(lo, hi, v) ==
    IF lo >= hi THEN lo
    ELSE LET mid == (lo + hi + 1) \div 2
         IN  IF mid * mid <= v THEN SqrtBetween(mid, hi, v)
             ELSE SqrtBetween(lo, mid - 1, v)

\* int(0.95 * new_bytes_ratio * side), new_bytes_ratio = sqrt(max_bytes / byte_size):
\* the largest n with n^2 <= side^2 * (19^2 * max_bytes) / (20^2 * byte_size)
ScaledSide(side, byte_size) ==
    LET g   == Gcd(max_bytes, SafetyDen * SafetyDen)
        num == SafetyNum * SafetyNum * (max_bytes \div g)
        den == ((SafetyDen * SafetyDen) \div g) * byte_size
    IN  SqrtBetween(0, side, MulDivMod(side * side, num, den)[1])

Max(a, b) == IF a >= b THEN a ELSE b

\* bits of the fraction of a Python float (IEEE 754 binary64)
FractionBits == 52

RECURSIVE Pow2(_)
Pow2(n) == IF n = 0 THEN 1 ELSE 2 * Pow2(n - 1)

\* the e with 2^e <= n < 2^(e+1), n >= 1
RECURSIVE Log2(_)
Log2(n) == IF n < 2 THEN 0 ELSE 1 + Log2(n \div 2)

\* (a * 2^n) % c
RECURSIVE ShiftMod(_, _, _)
ShiftMod(a, n, c) ==
    IF n = 0 THEN a % c ELSE (2 * ShiftMod(a, n - 1, c)) % c

\* the j >= from with 2^-j <= MaxDimension / longer
RECURSIVE QuotientExponent(_, _)
QuotientExponent(longer, from) ==
    IF longer <= MaxDimension * Pow2(from) THEN from
    ELSE QuotientExponent(longer, from + 1)

\* int(float(side) * float(10000 / float(longer))), longer > 10000, in
\* round-to-nearest-even binary64.  With m = side * 10000 / longer:
\*   - m not an integer: the two roundings move the product by less than
\*     1 / longer, so int() gives floor(m);
\*   - m an integer: q = float(10000 / longer) has the significand
\*     round(10000 * 2^(52+j) / longer); r is the remainder of that division.
\*     When q was rounded down (0 < 2r < longer) the product side * q lies
\*     m * r / (10000 * 2^(52+j)) below m, and float() of it is the double
\*     below m when that distance exceeds half the spacing of the doubles
\*     below m; int() then gives m - 1.
FloatScaled(side, longer) ==
    LET m   == (side * MaxDimension) \div longer
        rem == (side * MaxDimension) % longer
        j   == QuotientExponent(longer, 1)
        r   == ShiftMod(MaxDimension, FractionBits + j, longer)
        e   == Log2(m)
        gap == IF m = Pow2(e) THEN 2 * m * r ELSE m * r
    IN  IF rem # 0 THEN m
        ELSE IF r = 0 \/ 2 * r > longer THEN m
        ELSE IF gap > MaxDimension * Pow2(j + e - 1) THEN m - 1
        ELSE m

-----------------------------------------------------------------------------
\* The three checks.  Each returns [changed, im, error]: changed and im are
\* the two values the Python function returns, error says that im.resize
\* raised (a target side below 1 pixel).  s is the encoded size the encoder
\* gives the converted or resized image.

\* im.resize((w, h), Image.Resampling.LANCZOS)
Resize(page, w, h, s) ==
    [width |-> w, height |-> h, mode |-> page.mode, nbytes |-> s]

check_img_mode(page, s) ==
    IF page.mode \in {"1"}
    THEN [changed |-> TRUE,
          im |-> [page EXCEPT !.mode = "RGB", !.nbytes = s],
          error |-> FALSE]
    ELSE [changed |-> FALSE, im |-> page, error |-> FALSE]

check_oversized_dimen(page, s) ==
    LET max_dimension == Max(page.width, page.height)
        new_width  == IF page.width = max_dimension
                      THEN MaxDimension
                      ELSE FloatScaled(page.width, page.height)
        new_height == IF page.width = max_dimension
                      THEN FloatScaled(page.height, page.width)
                      ELSE MaxDimension
    IN  IF max_dimension <= MaxDimension
        THEN [changed |-> FALSE, im |-> page, error |-> FALSE]
        ELSE IF new_width < 1 \/ new_height < 1
        THEN [changed |-> FALSE, im |-> page, error |-> TRUE]
        ELSE [changed |-> TRUE,
              im |-> Resize(page, new_width, new_height, s),
              error |-> FALSE]

\* im.size of the image check_oversized_mem returns: new_width, new_height
\* for an oversized page, the page's own size otherwise
mem_new_size(page) ==
    IF page.nbytes > max_bytes
    THEN <<ScaledSide(page.width, page.nbytes),
           ScaledSide(page.height, page.nbytes)>>
    ELSE <<page.width, page.height>>

\* new_size is mem_new_size(page)
check_oversized_mem(page, new_size, s) ==
    LET byte_size == page.nbytes
    IN  IF byte_size > max_bytes
        THEN IF new_size[1] < 1 \/ new_size[2] < 1
             THEN [changed |-> FALSE, im |-> page, error |-> TRUE]
             ELSE [changed |-> TRUE,
                   im |-> Resize(page, new_size[1], new_size[2], s),
                   error |-> FALSE]
        ELSE [changed |-> FALSE, im |-> page, error |-> FALSE]

-----------------------------------------------------------------------------
\* The bucket and the handler

NoImage == [frames |-> <<>>, gen |-> 0]

\* s3.put_object(Body=buffer, Bucket=bucket, Key=key, ...)
PutObject(st, k, obj) ==
    [x \in (DOMAIN st) \cup {k} |-> IF x = k THEN obj ELSE st[x]]

\* the value put_tif_buffer returns: True (here statusCode 200), or the 400
\* dict when s3.put_object raises a ClientError
put_tif_buffer(client_error) ==
    IF client_error THEN [statusCode |-> 400] ELSE [statusCode |-> 200]

\* mutant: the 0-based loop index as the page number
Descriptor_Mutant(bucket, out_key, n) ==
    [bucket |-> bucket, key |-> out_key, page_num |-> n]

\* {'bucket': bucket, 'key': out_key, 'page_num': page_num + 1}
Descriptor(bucket, out_key, n) ==
    [bucket |-> bucket, key |-> out_key, page_num |-> n + 1]

\* mutant: an off-by-one in the multi-page test
IsMultiPage_Mutant(num_pages) == num_pages > 2

\* the `if num_pages > 1` of the page loop
IsMultiPage(num_pages) == num_pages > 1

\* out_key of the page loop
OutKey(k, num_pages, n) ==
    IF IsMultiPage(num_pages) THEN SplitKey(k, n) ELSE k

\* the `if ".DS_Store" in key` of lambda_handler
IsHousekeeping(k) == Contains(k, ".DS_Store")

\* whether the page is re-saved: the value of bool_modified at `if bool_modified`
\* (the flag check_oversized_dimen returns is not consulted)
PageModified(prev, num_pages, wrong_mode, oversized_dimen, mem_too_big) ==
    prev \/ IsMultiPage(num_pages) \/ wrong_mode \/ mem_too_big

DSStoreResult ==
    [statusCode |-> 200,
     body |-> [message |-> ".DS_Store file. Ignore!", pages |-> <<>>]]

SuccessResult(bucket, k, num_pages, modified, unmodified) ==
    [statusCode |-> 200,
     body |-> [message |-> "Success",
               bucket |-> bucket,
               orig |-> k,
               page_count |-> num_pages,
               modified_pages |-> modified,
               pages |-> unmodified]]

NoResult == [statusCode |-> 0, body |-> [message |-> "", pages |-> <<>>]]

Init ==
    /\ store = <<>>
    /\ events = <<>>
    /\ uploads = 0
    /\ pc = [p \in Procs |-> "idle"]
    /\ key = [p \in Procs |-> ""]
    /\ im = [p \in Procs |-> NoImage]
    /\ page_num = [p \in Procs |-> 0]
    /\ bool_modified = [p \in Procs |-> FALSE]
    /\ modified_pages = [p \in Procs |-> <<>>]
    /\ unmodified_pages = [p \in Procs |-> <<>>]
    /\ result = [p \in Procs |-> NoResult]
    /\ puts = [p \in Procs |-> <<>>]

\* A client uploads an object; the bucket emits an object-created event.
Upload(k, doc) ==
    /\ uploads' = uploads + 1
    /\ store' = PutObject(store, k,
                    IF IsHousekeeping(k) THEN NoImage
                    ELSE [frames |-> doc, gen |-> 0])
    /\ events' = Append(events, k)
    /\ UNCHANGED <<pc, key, im, page_num, bool_modified, modified_pages,
                   unmodified_pages, result, puts>>

\* lambda_handler up to the page loop: parse the event, ignore .DS_Store,
\* get_object and Image.open
Start(p, i) ==
    /\ pc[p] = "idle"
    /\ i \in 1..Len(events)
    /\ store[events[i]].gen < MaxGen
    /\ events' = SubSeq(events, 1, i - 1) \o SubSeq(events, i + 1, Len(events))
    /\ LET k == events[i] IN
       /\ key' = [key EXCEPT ![p] = k]
       /\ IF IsHousekeeping(k)
          THEN /\ result' = [result EXCEPT ![p] = DSStoreResult]
               /\ pc' = [pc EXCEPT ![p] = "done"]
               /\ UNCHANGED <<im, bool_modified>>
          ELSE /\ im' = [im EXCEPT ![p] = store[k]]
               /\ bool_modified' = [bool_modified EXCEPT ![p] = FALSE]
               /\ pc' = [pc EXCEPT ![p] =
                           IF Len(store[k].frames) = 0 THEN "crashed" ELSE "loop"]
               /\ UNCHANGED result
    /\ page_num' = [page_num EXCEPT ![p] = 0]
    /\ modified_pages' = [modified_pages EXCEPT ![p] = <<>>]
    /\ unmodified_pages' = [unmodified_pages EXCEPT ![p] = <<>>]
    /\ puts' = [puts EXCEPT ![p] = <<>>]
    /\ UNCHANGED <<store, uploads>>

\* The encoded sizes the encoder may give the page in hand: a size is a
\* free choice only for a conversion or a resize that can take place.
ConvertSizes(page) ==
    IF page.mode = "1" THEN ByteSizes ELSE {page.nbytes}

DimenSizes(page, s1) ==
    IF Max(page.width, page.height) > MaxDimension THEN ByteSizes ELSE {s1}

MemSizes(page) ==
    IF page.nbytes > max_bytes THEN ByteSizes ELSE {page.nbytes}

\* One iteration of the page loop, and the return after the last one.
\* s1, s2, s3: the encoded sizes after convert and after each resize;
\* client_error: whether s3.put_object raises a ClientError.
ProcessPage(p) ==
    /\ pc[p] = "loop"
    /\ LET num_pages == Len(im[p].frames)
           n         == page_num[p]
           out_key   == OutKey(key[p], num_pages, n)
           page_im   == im[p].frames[n + 1]
       IN  \E s1 \in ConvertSizes(page_im) : \E s2 \in DimenSizes(page_im, s1) :
           \E m \in {check_img_mode(page_im, s1)} :
           \E d \in {check_oversized_dimen(m.im, s2)} :
           \E new_size \in {mem_new_size(d.im)} :
           \E s3 \in MemSizes(d.im), client_error \in BOOLEAN :
           \E mem \in {IF d.error THEN d
                       ELSE check_oversized_mem(d.im, new_size, s3)} :
               LET
                   modified == PageModified(bool_modified[p], num_pages,
                                            m.changed, d.changed, mem.changed)
                   desc     == Descriptor(BucketName, out_key, n)
                   mods     == IF modified THEN Append(modified_pages[p], desc)
                               ELSE modified_pages[p]
                   unmods   == IF modified THEN unmodified_pages[p]
                               ELSE Append(unmodified_pages[p], desc)
                   last     == n + 1 = num_pages
               IN  IF d.error \/ mem.error
                   THEN /\ pc' = [pc EXCEPT ![p] = "crashed"]
                        /\ UNCHANGED <<store, events, page_num, bool_modified,
                                       modified_pages, unmodified_pages,
                                       result, puts>>
                   ELSE /\ bool_modified' = [bool_modified EXCEPT ![p] = modified]
                        /\ modified_pages' = [modified_pages EXCEPT ![p] = mods]
                        /\ unmodified_pages' =
                              [unmodified_pages EXCEPT ![p] = unmods]
                        /\ IF modified
                           THEN /\ puts' = [puts EXCEPT ![p] = Append(@,
                                              [key |-> out_key, page |-> mem.im,
                                               ret |-> put_tif_buffer(client_error)])]
                                /\ IF client_error
                                   THEN UNCHANGED <<store, events>>
                                   ELSE /\ store' = PutObject(store, out_key,
                                                       [frames |-> <<mem.im>>,
                                                        gen |-> im[p].gen + 1])
                                        /\ events' = Append(events, out_key)
                           ELSE UNCHANGED <<store, events, puts>>
                        /\ page_num' = [page_num EXCEPT ![p] = n + 1]
                        /\ IF last
                           THEN /\ result' = [result EXCEPT ![p] =
                                       SuccessResult(BucketName, key[p],
                                                     num_pages, mods, unmods)]
                                /\ pc' = [pc EXCEPT ![p] = "done"]
                           ELSE UNCHANGED <<pc, result>>
    /\ UNCHANGED <<uploads, key, im>>

\* The invocation is over; its execution environment takes the next event.
Recycle(p) ==
    /\ pc[p] \in {"done", "crashed"}
    /\ pc' = [pc EXCEPT ![p] = "idle"]
    /\ key' = [key EXCEPT ![p] = ""]
    /\ im' = [im EXCEPT ![p] = NoImage]
    /\ page_num' = [page_num EXCEPT ![p] = 0]
    /\ bool_modified' = [bool_modified EXCEPT ![p] = FALSE]
    /\ modified_pages' = [modified_pages EXCEPT ![p] = <<>>]
    /\ unmodified_pages' = [unmodified_pages EXCEPT ![p] = <<>>]
    /\ result' = [result EXCEPT ![p] = NoResult]
    /\ puts' = [puts EXCEPT ![p] = <<>>]
    /\ UNCHANGED <<store, events, uploads>>

\* One upload and the chain of invocations it triggers, one at a time and
\* in the order of the events.
Next ==
    \/ uploads = 0 /\ \E k \in SourceKeys, doc \in Documents : Upload(k, doc)
    \/ Start(1, 1)
    \/ ProcessPage(1)
    \/ Recycle(1)

Spec == Init /\ [][Next]_vars

\* Several uploads of plain images, processed by concurrent invocations.
NextConcurrent ==
    \/ uploads < MaxUploads /\ \E k \in SourceKeys \ DOMAIN store,
                                  doc \in PlainDocuments : Upload(k, doc)
    \/ \E p \in Procs, i \in 1..Len(events) : Start(p, i)
    \/ \E p \in Procs : ProcessPage(p)
    \/ \E p \in Procs : Recycle(p)

SpecConcurrent == Init /\ [][NextConcurrent]_vars

-----------------------------------------------------------------------------
\* The two resizing checks on their own: invocation 1 holds a page in im and
\* one call of a check leaves the pair it returns in result.

CheckSides == {1, 531, 7500, 10000, 10001, 10620, 16553, 20000}

CheckPages ==
    { [width |-> w, height |-> h, mode |-> "RGB", nbytes |-> b] :
          w \in CheckSides, h \in CheckSides, b \in {1000000, 15000000} }

InitChecks ==
    /\ store = <<>>
    /\ events = <<>>
    /\ uploads = 0
    /\ pc = [p \in Procs |-> "idle"]
    /\ key = [p \in Procs |-> ""]
    /\ \E page \in CheckPages :
          im = [p \in Procs |-> IF p = 1 THEN [frames |-> <<page>>, gen |-> 0]
                                ELSE NoImage]
    /\ page_num = [p \in Procs |-> 0]
    /\ bool_modified = [p \in Procs |-> FALSE]
    /\ modified_pages = [p \in Procs |-> <<>>]
    /\ unmodified_pages = [p \in Procs |-> <<>>]
    /\ result = [p \in Procs |-> NoResult]
    /\ puts = [p \in Procs |-> <<>>]

\* bool_oversized_dimen, page_im = check_oversized_dimen(page_im)
CallCheckOversizedDimen ==
    /\ pc[1] = "idle"
    /\ LET page_im == im[1].frames[1]
       IN  \E s \in DimenSizes(page_im, page_im.nbytes) :
           \E d \in {check_oversized_dimen(page_im, s)} :
               /\ result' = [result EXCEPT ![1] =
                                [call |-> "check_oversized_dimen", ret |-> d]]
               /\ pc' = [pc EXCEPT ![1] = IF d.error THEN "crashed" ELSE "done"]
    /\ UNCHANGED <<store, events, uploads, key, im, page_num, bool_modified,
                   modified_pages, unmodified_pages, puts>>

\* bool_mem_too_big, page_im = check_oversized_mem(page_im)
CallCheckOversizedMem ==
    /\ pc[1] = "idle"
    /\ LET page_im == im[1].frames[1]
       IN  \E s \in MemSizes(page_im) :
           \E new_size \in {mem_new_size(page_im)} :
           \E mem \in {check_oversized_mem(page_im, new_size, s)} :
               /\ result' = [result EXCEPT ![1] =
                                [call |-> "check_oversized_mem", ret |-> mem]]
               /\ pc' = [pc EXCEPT ![1] = IF mem.error THEN "crashed" ELSE "done"]
    /\ UNCHANGED <<store, events, uploads, key, im, page_num, bool_modified,
                   modified_pages, unmodified_pages, puts>>

NextChecks ==
    \/ CallCheckOversizedDimen
    \/ CallCheckOversizedMem

SpecChecks == InitChecks /\ [][NextChecks]_vars

-----------------------------------------------------------------------------
\* Properties

Range(s) == {s[i] : i \in DOMAIN s}

\* the invocation has returned lambda_handler's final dict
Returned(p) == pc[p] = "done" /\ result[p].body.message = "Success"

Compliant(page) ==
    /\ Max(page.width, page.height) <= MaxDimension
    /\ page.mode # "1"
    /\ page.nbytes <= ByteBudget

\* position of the last "." of k, 0 when there is none
LastDot(k) ==
    LET dots == {i \in 1..Len(k) : Char(k, i) = "."}
    IN  IF dots = {} THEN 0
        ELSE CHOOSE i \in dots : \A j \in dots : j <= i

\* k without its trailing file extension, and that extension
Stem(k) == IF LastDot(k) = 0 THEN k ELSE SubSeq(k, 1, LastDot(k) - 1)
Extension(k) == IF LastDot(k) = 0 THEN "" ELSE SubSeq(k, LastDot(k), Len(k))

\* the keys of the put_object calls that succeeded, in call order
RECURSIVE WrittenKeys(_)
WrittenKeys(log) ==
    IF log = <<>> THEN <<>>
    ELSE LET rest == WrittenKeys(SubSeq(log, 1, Len(log) - 1))
             last == log[Len(log)]
         IN  IF last.ret.statusCode = 200 THEN Append(rest, last.key) ELSE rest

\* C1: an object written by an invocation (gen >= 1), when processed by the
\* invocation its write triggers, is reported unmodified and causes no further
\* write.
C1_WrittenObjectIsFixedPoint ==
    \A p \in Procs :
        (pc[p] \in {"loop", "done"} /\ im[p].gen >= 1)
            => (modified_pages[p] = <<>> /\ puts[p] = <<>>)

\* C2: after an invocation, the object stored at the key of every descriptor
\* of the unmodified list (`pages`) satisfies the three compliance bounds.
C2_UnmodifiedPagesCompliant ==
    \A p \in Procs :
        Returned(p) =>
            \A desc \in Range(result[p].body.pages) :
                \A page \in Range(store[desc.key].frames) : Compliant(page)

\* C3: if a put fails during an invocation, the result is a failure result
\* and the page whose write failed is not reported as a modified page.
C3_PutFailureSurfaced ==
    \A p \in Procs :
        \A i \in DOMAIN puts[p] :
            (pc[p] = "done" /\ puts[p][i].ret.statusCode # 200)
                => /\ ~(result[p].statusCode = 200
                        /\ result[p].body.message = "Success")
                   /\ \A desc \in Range(modified_pages[p]) :
                         desc.key # puts[p][i].key

\* C4: a single-page source modified by a compliance fix is written to and
\* reported under the source key with "_MODIFIED" inserted before the
\* extension.
C4_ModifiedMarkerInKey ==
    \A p \in Procs :
        (Returned(p) /\ result[p].body.page_count = 1
                     /\ result[p].body.modified_pages # <<>>
                     /\ ~Contains(key[p], "_SPLITPAGE_"))
            => /\ result[p].body.modified_pages[1].key =
                      Stem(key[p]) \o "_MODIFIED" \o Extension(key[p])
               /\ puts[p][1].key = result[p].body.modified_pages[1].key

\* C5: page i of a multi-page source K is written to
\* Stem(K) + "_SPLITPAGE_" + i + ".tif", whatever the extension of K.
C5_SplitKeyStripsExtension ==
    \A p \in Procs :
        (Returned(p) /\ result[p].body.page_count > 1)
            => \A i \in DOMAIN result[p].body.modified_pages :
                  /\ result[p].body.modified_pages[i].key =
                        Stem(key[p]) \o "_SPLITPAGE_" \o ToString(i) \o ".tif"
                  /\ puts[p][i].key = result[p].body.modified_pages[i].key

\* C6: a source of N > 1 pages yields exactly N modified descriptors with
\* page numbers 1..N in order and no unmodified descriptor; the unmodified
\* list never holds more than one element.
C6_MultiPageAllModified ==
    \A p \in Procs :
        /\ Len(unmodified_pages[p]) <= 1
        /\ (Returned(p) /\ result[p].body.page_count > 1)
              => /\ Len(result[p].body.modified_pages) = Len(im[p].frames)
                 /\ Len(im[p].frames) = result[p].body.page_count
                 /\ \A i \in DOMAIN result[p].body.modified_pages :
                       result[p].body.modified_pages[i].page_num = i
                 /\ result[p].body.pages = <<>>

\* a two-page source whose pages need no fix has been split
C6_Witness ==
    \E p \in Procs :
        /\ Returned(p)
        /\ result[p].body.page_count = 2
        /\ \A page \in Range(im[p].frames) : Compliant(page)
        /\ Len(result[p].body.modified_pages) = 2

\* C7: in a successful result len(modified_pages) + len(pages) = page_count
\* and every page number 1..page_count is in exactly one of the two lists.
C7_PageCountConservation ==
    \A p \in Procs :
        Returned(p) =>
            LET body == result[p].body
                all  == body.modified_pages \o body.pages
            IN  /\ Len(body.modified_pages) + Len(body.pages) = body.page_count
                /\ body.page_count = Len(im[p].frames)
                /\ \A n \in 1..body.page_count :
                      Cardinality({i \in DOMAIN all : all[i].page_num = n}) = 1

\* a single-page source was passed through unmodified
C7_Witness ==
    \E p \in Procs :
        /\ Returned(p)
        /\ result[p].body.page_count = 1
        /\ Len(result[p].body.pages) = 1
        /\ result[p].body.modified_pages = <<>>

\* C8: two invocations running on distinct source keys never write to the
\* same destination key.
C8_DistinctSourcesDisjointDestinations ==
    \A p, q \in Procs :
        (p # q /\ pc[p] \in {"loop", "done"} /\ pc[q] \in {"loop", "done"}
               /\ key[p] # key[q])
            => {puts[p][i].key : i \in DOMAIN puts[p]}
                 \cap {puts[q][i].key : i \in DOMAIN puts[q]} = {}

\* C9: the writes an invocation has performed are exactly its modified list,
\* key by key in page order; a housekeeping key returns an empty successful
\* result with no read and no write.
C9_WritesAreModifiedList ==
    \A p \in Procs :
        /\ pc[p] \in {"loop", "done"}
              => WrittenKeys(puts[p]) =
                    [i \in DOMAIN modified_pages[p] |-> modified_pages[p][i].key]
        /\ (pc[p] = "done" /\ IsHousekeeping(key[p]))
              => /\ result[p] = DSStoreResult
                 /\ puts[p] = <<>>
                 /\ im[p] = NoImage

\* C10: every page whose encoding exceeds the byte budget is reported as
\* modified, and the object written for it encodes to at most the budget.
C10_OversizedPageWrittenWithinBudget ==
    \A p \in Procs :
        pc[p] \in {"loop", "done"} =>
            \A n \in 1..page_num[p] :
                im[p].frames[n].nbytes > ByteBudget
                    => /\ \E desc \in Range(modified_pages[p]) : desc.page_num = n
                       /\ \A i \in DOMAIN puts[p] :
                             (i <= Len(modified_pages[p])
                                 /\ modified_pages[p][i].page_num = n)
                                => puts[p][i].page.nbytes <= ByteBudget

\* the call of a check has ended, by a return or by an exception
Called(fn) == pc[1] \in {"done", "crashed"} /\ result[1].call = fn

\* C11: for every width and height >= 1, check_oversized_dimen returns
\* (False, the page unchanged) when max(width, height) <= 10000, and
\* otherwise (True, a page whose longer side is exactly 10000 and whose
\* shorter side is the original shorter side times 10000 / longer, rounded
\* down), so that neither side grows.
C11_DimenResizeExact ==
    Called("check_oversized_dimen") =>
        LET page   == im[1].frames[1]
            ret    == result[1].ret
            longer == Max(page.width, page.height)
        IN  /\ ~ret.error
            /\ longer <= MaxDimension
                  => (~ret.changed /\ ret.im = page)
            /\ longer > MaxDimension
                  => /\ ret.changed
                     /\ ret.im.width =
                           IF page.width = longer THEN MaxDimension
                           ELSE (page.width * MaxDimension) \div longer
                     /\ ret.im.height =
                           IF page.height = longer THEN MaxDimension
                           ELSE (page.height * MaxDimension) \div longer
                     /\ ret.im.width <= page.width
                     /\ ret.im.height <= page.height

\* C12: check_oversized_mem never resizes to a side of 0 pixels: a side
\* whose scaled value rounds down to 0 is clamped to 1 pixel and the call
\* returns instead of raising.
C12_DegenerateResizeClamped ==
    Called("check_oversized_mem") =>
        LET page == im[1].frames[1]
            ret  == result[1].ret
        IN  /\ ~ret.error
            /\ page.nbytes > max_bytes
                  => /\ ret.changed
                     /\ ret.im.width = Max(1, ScaledSide(page.width, page.nbytes))
                     /\ ret.im.height = Max(1, ScaledSide(page.height, page.nbytes))

====
